---- MODULE Spec2Model ----
(***************************************************************************)
(* Model of data_utils.py of ghetto-live-gex: the two live snapshot        *)
(* aggregators (UnderlyingLivePrices, OptionsLivePrices), the option       *)
(* symbol parser (parse_symbol), the GEX table (get_price_and_gex) and the *)
(* orchestration entry point (cache_gex_csv).                              *)
(*                                                                         *)
(* Symbols are sequences of one-character strings.  Floating point numbers *)
(* are decimal numbers m * 10^e with an explicit not-a-number value;       *)
(* products are exact (binary rounding is outside the model).              *)
(***************************************************************************)
EXTENDS Integers, Sequences, FiniteSets, TLC

VARIABLES
    session,           \* reference data and feed of the brokerage session
    expiration_count,  \* parameter of cache_gex_csv
    pc,                \* position of the main coroutine
    heap,              \* the bundle objects, one per streaming connection
    self,              \* bundle under construction / returned by create
    underlying,        \* cache_gex_csv: the underlying bundle (0 = unset)
    options_dict,      \* cache_gex_csv: expiration -> options bundle
    todo,              \* cache_gex_csv: expirations the for loop has left
    expiration,        \* expiration argument of OptionsLivePrices.create
    live,              \* the provider still delivers events
    lastEv,            \* history: the event delivered last
    json_file,         \* the JSON side record (<<>> = not written)
    csv_file,          \* the CSV table (<<>> = not written)
    result,            \* outcome of get_price_and_gex
    eventSymbol,       \* argument of parse_symbol
    parsed             \* outcome of parse_symbol

vars == <<session, expiration_count, pc, heap, self, underlying, options_dict,
          todo, expiration, live, lastEv, json_file, csv_file, result, eventSymbol, parsed>>

None == [none |-> TRUE]

(***************************************************************************)
(* Numbers                                                                 *)
(***************************************************************************)
RECURSIVE Norm(_, _)
Norm(m, e) ==
    IF m = 0 THEN [m |-> 0, e |-> 0, nan |-> FALSE]
    ELSE IF m % 10 = 0 THEN Norm(m \div 10, e + 1)
    ELSE [m |-> m, e |-> e, nan |-> FALSE]

nan == [m |-> 0, e |-> 0, nan |-> TRUE]

Num(n) == Norm(n, 0)

\* a product that skips a missing factor
Mul_skipNan(a, b) ==
    IF a.nan THEN b ELSE IF b.nan THEN a ELSE Norm(a.m * b.m, a.e + b.e)

\* a * b on floats: not-a-number if either factor is
Mul(a, b) == IF a.nan \/ b.nan THEN nan ELSE Norm(a.m * b.m, a.e + b.e)

(***************************************************************************)
(* Characters and symbols                                                  *)
(***************************************************************************)
DigitChars == <<"0", "1", "2", "3", "4", "5", "6", "7", "8", "9">>

IsDigit(ch) == \E i \in 1..10 : DigitChars[i] = ch

DigitVal(ch) == (CHOOSE i \in 1..10 : DigitChars[i] = ch) - 1

UpperChars == {"A", "B", "C", "D", "E", "F", "G", "H", "I", "J", "K", "L", "M",
               "N", "O", "P", "Q", "R", "S", "T", "U", "V", "W", "X", "Y", "Z"}

IsUpper(ch) == ch \in UpperChars

RECURSIVE IntOfDigits(_)
IntOfDigits(ds) ==
    IF ds = <<>> THEN 0
    ELSE 10 * IntOfDigits(SubSeq(ds, 1, Len(ds) - 1)) + DigitVal(ds[Len(ds)])

RECURSIVE DigitsOfInt(_)
DigitsOfInt(n) ==
    IF n < 10 THEN <<DigitChars[n + 1]>>
    ELSE Append(DigitsOfInt(n \div 10), DigitChars[(n % 10) + 1])

Digits2(n) == <<DigitChars[(n \div 10) + 1], DigitChars[(n % 10) + 1]>>

(***************************************************************************)
(* parse_symbol                                                            *)
(***************************************************************************)
DateDigits == 6

\* end (exclusive) of the longest run of characters of a class from i on
RECURSIVE RunEnd(_, _, _)
RunEnd(s, i, digit) ==
    IF i <= Len(s) /\ (IF digit THEN IsDigit(s[i]) ELSE IsUpper(s[i]))
    THEN RunEnd(s, i + 1, digit)
    ELSE i

\* re.match(PATTERN, s): the four groups, or None
re_match(s) ==
    IF Len(s) = 0 \/ s[1] # "." THEN None
    ELSE LET a == RunEnd(s, 2, FALSE)          \* ([A-Z]+)
             d == RunEnd(s, a, TRUE)           \* digits that follow
             b == a + DateDigits               \* (\d{6})
             z == RunEnd(s, b + 1, TRUE)       \* (\d+)
         IN  IF a = 2 THEN None
             ELSE IF d - a < DateDigits THEN None
             ELSE IF b > Len(s) \/ s[b] \notin {"C", "P"} THEN None
             ELSE IF z = b + 1 THEN None
             ELSE [none |-> FALSE,
                   g1 |-> SubSeq(s, 2, a - 1),
                   g2 |-> SubSeq(s, a, b - 1),
                   g3 |-> s[b],
                   g4 |-> SubSeq(s, b + 1, z - 1)]

DaysIn(year, month) ==
    IF month \in {4, 6, 9, 11} THEN 30
    ELSE IF month # 2 THEN 31
    ELSE IF year % 4 = 0 /\ (year % 100 # 0 \/ year % 400 = 0) THEN 29
    ELSE 28

\* a parser that reads the digits as year, day, month
strptime_dayFirst(ds) ==
    LET yy    == IntOfDigits(SubSeq(ds, 1, 2))
        day   == IntOfDigits(SubSeq(ds, 3, 4))
        month == IntOfDigits(SubSeq(ds, 5, 6))
        year  == IF yy <= 68 THEN 2000 + yy ELSE 1900 + yy
    IN  IF month \in 1..12 /\ day >= 1 /\ day <= DaysIn(year, month)
        THEN year * 10000 + month * 100 + day
        ELSE 0

\* datetime.strptime(ds, '%y%m%d').date(): a date as yyyymmdd, 0 = ValueError
strptime(ds) ==
    LET yy    == IntOfDigits(SubSeq(ds, 1, 2))
        month == IntOfDigits(SubSeq(ds, 3, 4))
        day   == IntOfDigits(SubSeq(ds, 5, 6))
        year  == IF yy <= 68 THEN 2000 + yy ELSE 1900 + yy
    IN  IF month \in 1..12 /\ day >= 1 /\ day <= DaysIn(year, month)
        THEN year * 10000 + month * 100 + day
        ELSE 0

Raise(exc) == [ok |-> FALSE, raises |-> exc]

parse_symbol(s) ==
    LET matched == re_match(s) IN
    IF matched.none THEN Raise("AttributeError")
    ELSE LET date == strptime(matched.g2) IN
         IF date = 0 THEN Raise("ValueError")
         ELSE [ok |-> TRUE,
               ticker |-> matched.g1,
               expiration |-> date,
               contract_type |-> matched.g3,
               strike |-> Num(IntOfDigits(matched.g4))]

(***************************************************************************)
(* Reference data and events of the session                                *)
(***************************************************************************)
ticker == <<"S", "P", "Y">>

Kinds == {"quotes", "greeks", "candles", "summaries", "trades"}

\* yyyymmdd -> the six characters YYMMDD of a streamer symbol
YYMMDD(date) ==
    Digits2((date \div 10000) % 100) \o Digits2((date \div 100) % 100)
        \o Digits2(date % 100)

\* an option instrument of the chain
Option(date, type, strike) ==
    [streamer_symbol |-> <<".">> \o ticker \o YYMMDD(date) \o <<type>>
                            \o DigitsOfInt(strike),
     option_type |-> type]

\* the event of kind K for symbol s in the provider's version v of the data
EventOf(K, s, v) ==
    CASE K = "quotes" ->
           [eventSymbol |-> s,
            bidPrice |-> IF v = 1 THEN Num(499) ELSE Num(20),
            askPrice |-> IF v = 1 THEN Num(501) ELSE Num(21)]
      [] K = "greeks" ->
           [eventSymbol |-> s,
            gamma |-> IF v = 1 THEN Norm(5, -2) ELSE Norm(12, -2)]
      [] K = "candles" ->
           [eventSymbol |-> s,
            close |-> IF v = 1 THEN Num(500) ELSE Norm(205, -1),
            volume |-> IF v = 1 THEN Num(300) ELSE Num(7),
            bidVolume |-> IF v = 1 THEN Num(100) ELSE Num(3),
            askVolume |-> IF v = 1 THEN Num(200) ELSE Num(4)]
      [] K = "summaries" ->
           [eventSymbol |-> s,
            prevDayVolume |-> IF v = 1 THEN Num(400) ELSE Num(9),
            openInterest |-> IF v = 1 THEN Num(1000) ELSE Num(37)]
      [] K = "trades" ->
           [eventSymbol |-> s,
            dayVolume |-> IF v = 1 THEN Num(250) ELSE Num(0)]

(***************************************************************************)
(* Dictionaries                                                            *)
(***************************************************************************)
len(d) == Cardinality(DOMAIN d)

\* d[k] = v on a dict keyed by symbol
setitem(d, k, v) == [x \in (DOMAIN d) \cup {k} |-> IF x = k THEN v ELSE d[x]]

\* [o for o in options if o.option_type == type]
RECURSIVE Filter(_, _)
Filter(seq, type) ==
    IF seq = <<>> THEN <<>>
    ELSE IF Head(seq).option_type = type
         THEN <<Head(seq)>> \o Filter(Tail(seq), type)
         ELSE Filter(Tail(seq), type)

SymbolsOf(options) == {options[i].streamer_symbol : i \in 1..Len(options)}

\* sorted(list(keys)) for a list of distinct dates
RECURSIVE sorted(_)
sorted(keys) ==
    IF keys = <<>> THEN <<>>
    ELSE LET i == CHOOSE i \in 1..Len(keys) :
                      \A j \in 1..Len(keys) : keys[i] <= keys[j]
         IN  <<keys[i]>> \o sorted(SubSeq(keys, 1, i - 1)
                                     \o SubSeq(keys, i + 1, Len(keys)))

(***************************************************************************)
(* The listeners: one task per event kind and connection                   *)
(***************************************************************************)
\* a get_price_and_gex that yields to the event loop while it runs
Suspended_inGex ==
    pc \in {"u_connect", "u_sleep", "o_connect", "o_sleep", "gex"}

\* the main coroutine is suspended in an await: listener tasks may run
Suspended == pc \in {"u_connect", "u_sleep", "o_connect", "o_sleep"}

\* a listener that keeps the first event of a symbol
update_keepFirst(d, e) ==
    IF e.eventSymbol \in DOMAIN d THEN d ELSE setitem(d, e.eventSymbol, e)

\* a listener that keeps the latest event only
update_latestOnly(d, e) == [x \in {e.eventSymbol} |-> e]

\* self.<kind>[e.eventSymbol] = e
update(d, e) == setitem(d, e.eventSymbol, e)

\* listener tasks that end when create returns the next bundle
Listen_untilNextCreate(c, K, e) ==
    /\ Suspended
    /\ live
    /\ c = Len(heap)
    /\ K \in DOMAIN heap[c].streamer
    /\ heap' = [heap EXCEPT ![c][K] = update(@, e)]
    /\ UNCHANGED <<session, expiration_count, pc, self, underlying,
                   options_dict, todo, expiration, live, json_file, csv_file,
                   result, eventSymbol, parsed>>

\* async for e in self.streamer.listen(K): self.<K>[e.eventSymbol] = e
Listen(c, K, e) ==
    /\ Suspended
    /\ live
    /\ c \in 1..Len(heap)
    /\ K \in DOMAIN heap[c].streamer
    /\ heap' = [heap EXCEPT ![c][K] = update(@, e)]
    /\ UNCHANGED <<session, expiration_count, pc, self, underlying,
                   options_dict, todo, expiration, live, json_file, csv_file,
                   result, eventSymbol, parsed>>

\* the events the provider sends on connection c for kind K: those of the
\* subscribed symbols, and of the symbols it names differently
FeedEvents(c, K) ==
    {EventOf(K, s, v) : s \in heap[c].streamer[K] \cup session.stray,
                        v \in session.versions}

\* a listener step
Deliver ==
    \E c \in 1..Len(heap) : \E K \in DOMAIN heap[c].streamer :
        \E e \in FeedEvents(c, K) : Listen(c, K, e) /\ UNCHANGED lastEv

\* a listener step, recorded in the history variable
DeliverObserved ==
    \E c \in 1..Len(heap) : \E K \in DOMAIN heap[c].streamer :
        \E e \in FeedEvents(c, K) :
            Listen(c, K, e) /\ lastEv' = [c |-> c, K |-> K, e |-> e]

\* the provider stops sending (or the connection drops)
ProviderStops ==
    /\ live
    /\ live' = FALSE
    /\ UNCHANGED <<session, expiration_count, pc, heap, self, underlying,
                   options_dict, todo, expiration, lastEv, json_file,
                   csv_file, result, eventSymbol, parsed>>

(***************************************************************************)
(* UnderlyingLivePrices.create                                             *)
(***************************************************************************)
U_Connect ==
    /\ pc = "u_connect"
    /\ LET streamer_symbols == {session.equity.streamer_symbol} IN
       heap' = Append(heap,
           [quotes |-> <<>>, candles |-> <<>>, summaries |-> <<>>,
            trades |-> <<>>,
            streamer |-> [quotes |-> streamer_symbols,
                          candles |-> streamer_symbols,
                          summaries |-> streamer_symbols,
                          trades |-> streamer_symbols],
            underlying |-> session.equity])
    /\ self' = Len(heap) + 1
    /\ pc' = "u_check"
    /\ UNCHANGED <<session, expiration_count, underlying, options_dict, todo,
                   expiration, live, lastEv, json_file, csv_file, result,
                   eventSymbol, parsed>>

\* a loop that forgets the trades map
UnderlyingWaiting_noTrades(b) ==
    \/ len(b.quotes) # 1
    \/ len(b.candles) # 1
    \/ len(b.summaries) # 1

\* a loop that gives up when the feed has stopped
UnderlyingWaiting_timeout(b) ==
    /\ live
    /\ \/ len(b.quotes) # 1
       \/ len(b.candles) # 1
       \/ len(b.summaries) # 1
       \/ len(b.trades) # 1

\* a loop that waits until no map is empty
UnderlyingWaiting_nonEmpty(b) ==
    \/ len(b.quotes) < 1
    \/ len(b.candles) < 1
    \/ len(b.summaries) < 1
    \/ len(b.trades) < 1

\* the condition of the while loop of UnderlyingLivePrices.create
UnderlyingWaiting(b) ==
    \/ len(b.quotes) # 1
    \/ len(b.candles) # 1
    \/ len(b.summaries) # 1
    \/ len(b.trades) # 1

U_Check ==
    /\ pc = "u_check"
    /\ pc' = IF UnderlyingWaiting(heap[self]) THEN "u_sleep" ELSE "u_return"
    /\ UNCHANGED <<session, expiration_count, heap, self, underlying,
                   options_dict, todo, expiration, live, lastEv, json_file,
                   csv_file, result, eventSymbol, parsed>>

U_Wake ==
    /\ pc = "u_sleep"
    /\ pc' = "u_check"
    /\ UNCHANGED <<session, expiration_count, heap, self, underlying,
                   options_dict, todo, expiration, live, lastEv, json_file,
                   csv_file, result, eventSymbol, parsed>>

(***************************************************************************)
(* OptionsLivePrices.create                                                *)
(***************************************************************************)
O_Connect ==
    /\ pc = "o_connect"
    /\ LET options == session.chain[expiration]
           streamer_symbols == SymbolsOf(options)
       IN  heap' = Append(heap,
               [quotes |-> <<>>, greeks |-> <<>>, candles |-> <<>>,
                summaries |-> <<>>, trades |-> <<>>,
                streamer |-> [quotes |-> {ticker} \cup streamer_symbols,
                              candles |-> {ticker} \cup streamer_symbols,
                              greeks |-> streamer_symbols,
                              summaries |-> streamer_symbols,
                              trades |-> streamer_symbols],
                puts |-> Filter(options, "P"),
                calls |-> Filter(options, "C")])
    /\ self' = Len(heap) + 1
    /\ pc' = "o_check"
    /\ UNCHANGED <<session, expiration_count, underlying, options_dict, todo,
                   expiration, live, lastEv, json_file, csv_file, result,
                   eventSymbol, parsed>>

\* a limit computed with integer division: n < len(options) // 2
BelowLimit_floor(n, options) == n < Len(options) \div 2

\* a limit that has to be exceeded: n <= len(options) * 0.5
BelowLimit_inclusive(n, options) == 2 * n <= Len(options)

\* n < len(options) * 0.5
BelowLimit(n, options) == 2 * n < Len(options)

\* a loop that waits for the greeks alone
OptionsWaiting_greeksOnly(b, options) == BelowLimit(len(b.greeks), options)

\* the condition of the while loop of OptionsLivePrices.create
OptionsWaiting(b, options) ==
    \/ BelowLimit(len(b.greeks), options)
    \/ BelowLimit(len(b.quotes), options)
    \/ BelowLimit(len(b.candles), options)
    \/ BelowLimit(len(b.summaries), options)
    \/ BelowLimit(len(b.trades), options)

O_Check ==
    /\ pc = "o_check"
    /\ pc' = IF OptionsWaiting(heap[self], session.chain[expiration])
             THEN "o_sleep" ELSE "o_return"
    /\ UNCHANGED <<session, expiration_count, heap, self, underlying,
                   options_dict, todo, expiration, live, lastEv, json_file,
                   csv_file, result, eventSymbol, parsed>>

O_Wake ==
    /\ pc = "o_sleep"
    /\ pc' = "o_check"
    /\ UNCHANGED <<session, expiration_count, heap, self, underlying,
                   options_dict, todo, expiration, live, lastEv, json_file,
                   csv_file, result, eventSymbol, parsed>>

(***************************************************************************)
(* get_price_and_gex                                                       *)
(***************************************************************************)
\* options_dict is an insertion-ordered dict: a sequence of items
dict_len(d) == Len(d)

dict_set(d, k, v) ==
    IF \E i \in 1..Len(d) : d[i].key = k
    THEN [i \in 1..Len(d) |-> IF d[i].key = k THEN [key |-> k, value |-> v]
                              ELSE d[i]]
    ELSE Append(d, [key |-> k, value |-> v])

\* a loop over the calls alone
RECURSIVE Visited_callsOnly(_)
Visited_callsOnly(items) ==
    IF items = <<>> THEN <<>>
    ELSE LET v == Head(items).value
             contract_list == v.calls
         IN  [i \in 1..Len(contract_list) |-> [v |-> v, x |-> contract_list[i]]]
                 \o Visited_callsOnly(Tail(items))

\* the contracts in the order the two loops visit them, each with its bundle
RECURSIVE Visited(_)
Visited(items) ==
    IF items = <<>> THEN <<>>
    ELSE LET v == Head(items).value
             contract_list == v.calls \o v.puts
         IN  [i \in 1..Len(contract_list) |-> [v |-> v, x |-> contract_list[i]]]
                 \o Visited(Tail(items))

\* a lookup that defaults to zero
Lookup_zero(d, symbol, field) ==
    IF symbol \in DOMAIN d THEN d[symbol][field] ELSE Num(0)

\* d[symbol].field if symbol in d.keys() else np.nan
Lookup(d, symbol, field) ==
    IF symbol \in DOMAIN d THEN d[symbol][field] ELSE nan

\* an exposure without the sign of the contract type
Exposure_unsigned(gamma, volume, spot_price, contract_type_int) ==
    Mul(Mul(Mul(Mul(Mul(gamma, volume), Num(100)), spot_price),
            spot_price), Norm(1, -2))

\* gamma * volume * 100 * spot_price * spot_price * 0.01 * contract_type_int
Exposure(gamma, volume, spot_price, contract_type_int) ==
    Mul(Mul(Mul(Mul(Mul(Mul(gamma, volume), Num(100)), spot_price),
                spot_price), Norm(1, -2)), Num(contract_type_int))

contract_type_int(x) == IF x = "C" THEN 1 ELSE -1

\* one row of the table, with its computed columns
Row(v, x, spot_price) ==
    LET symbol == x.streamer_symbol
        p      == parse_symbol(symbol)
        gamma           == Lookup(v.greeks, symbol, "gamma")
        candleBidVolume == Lookup(v.candles, symbol, "bidVolume")
        candleAskVolume == Lookup(v.candles, symbol, "askVolume")
        candleDayVolume == Lookup(v.candles, symbol, "volume")
        tradeDayVolume  == Lookup(v.trades, symbol, "dayVolume")
        prevDayVolume   == Lookup(v.summaries, symbol, "prevDayVolume")
        openInterest    == Lookup(v.summaries, symbol, "openInterest")
        sign            == contract_type_int(p.contract_type)
    IN  [symbol |-> symbol,
         ticker |-> p.ticker,
         expiration |-> p.expiration,
         contract_type |-> p.contract_type,
         strike |-> p.strike,
         gamma |-> gamma,
         candleBidVolume |-> candleBidVolume,
         candleAskVolume |-> candleAskVolume,
         candleDayVolume |-> candleDayVolume,
         tradeDayVolume |-> tradeDayVolume,
         prevDayVolume |-> prevDayVolume,
         openInterest |-> openInterest,
         contract_type_int |-> sign,
         gex |-> Exposure(gamma, openInterest, spot_price, sign),
         gexCandleDayVolume |-> Exposure(gamma, candleDayVolume, spot_price, sign),
         gexTradeDayVolume |-> Exposure(gamma, tradeDayVolume, spot_price, sign),
         gexPrevDayVolume |-> Exposure(gamma, prevDayVolume, spot_price, sign)]

\* und: the underlying bundle; items: the items of options_dict (bundles)
get_price_and_gex(tk, und, items) ==
    IF tk \notin DOMAIN und.candles THEN Raise("KeyError")
    ELSE LET spot_price == und.candles[tk].close
             todo_list  == Visited(items)
             bad == {i \in 1..Len(todo_list) :
                        ~parse_symbol(todo_list[i].x.streamer_symbol).ok}
         IN  IF bad # {}
             THEN parse_symbol(todo_list[CHOOSE i \in bad :
                      \A j \in bad : i <= j].x.streamer_symbol)
             ELSE IF todo_list = <<>> THEN Raise("AttributeError")
             ELSE [ok |-> TRUE,
                   spot_price |-> spot_price,
                   df |-> [i \in 1..Len(todo_list) |->
                             Row(todo_list[i].v, todo_list[i].x, spot_price)]]

(***************************************************************************)
(* cache_gex_csv                                                           *)
(***************************************************************************)
\* lines 238-245: the underlying bundle is back; write the JSON record
JsonWrite ==
    /\ pc = "u_return"
    /\ underlying' = self
    /\ IF ticker \in DOMAIN heap[self].candles
       THEN /\ json_file' = <<heap[self].candles[ticker]>>
            /\ options_dict' = <<>>
            /\ todo' = sorted(session.chain_keys)
            /\ pc' = "loop"
       ELSE /\ pc' = "error"
            /\ UNCHANGED <<json_file, options_dict, todo>>
    /\ UNCHANGED <<session, expiration_count, heap, self, expiration, live,
                   lastEv, csv_file, result, eventSymbol, parsed>>

\* line 246: the for loop takes the next expiration, or ends
Loop ==
    /\ pc = "loop"
    /\ IF todo = <<>>
       THEN /\ pc' = "gex"
            /\ UNCHANGED <<todo, expiration>>
       ELSE /\ expiration' = Head(todo)
            /\ todo' = Tail(todo)
            /\ pc' = "o_connect"
    /\ UNCHANGED <<session, expiration_count, heap, self, underlying,
                   options_dict, live, lastEv, json_file, csv_file, result,
                   eventSymbol, parsed>>

\* a break as soon as expiration_count bundles exist
BreakNow_atCount(d, count) == dict_len(d) >= count

\* len(options_dict) > expiration_count
BreakNow(d, count) == dict_len(d) > count

\* lines 247-249: the options bundle is back; store it, break or go on
Store ==
    /\ pc = "o_return"
    /\ options_dict' = dict_set(options_dict, expiration, self)
    /\ pc' = IF BreakNow(options_dict', expiration_count) THEN "gex" ELSE "loop"
    /\ UNCHANGED <<session, expiration_count, heap, self, underlying, todo,
                   expiration, live, lastEv, json_file, csv_file, result,
                   eventSymbol, parsed>>

\* line 251
Gex ==
    /\ pc = "gex"
    /\ result' = get_price_and_gex(ticker, heap[underlying],
                     [i \in 1..Len(options_dict) |->
                         [key |-> options_dict[i].key,
                          value |-> heap[options_dict[i].value]]])
    /\ pc' = IF result'.ok THEN "csv" ELSE "error"
    /\ UNCHANGED <<session, expiration_count, heap, self, underlying,
                   options_dict, todo, expiration, live, lastEv, json_file,
                   csv_file, eventSymbol, parsed>>

\* line 253
Csv ==
    /\ pc = "csv"
    /\ csv_file' = <<result.df>>
    /\ pc' = "done"
    /\ UNCHANGED <<session, expiration_count, heap, self, underlying,
                   options_dict, todo, expiration, live, lastEv, json_file,
                   result, eventSymbol, parsed>>

\* a call of parse_symbol
Parse ==
    /\ pc = "parse"
    /\ parsed' = parse_symbol(eventSymbol)
    /\ pc' = "parsed"
    /\ UNCHANGED <<session, expiration_count, heap, self, underlying,
                   options_dict, todo, expiration, live, lastEv, json_file,
                   csv_file, result, eventSymbol>>

(***************************************************************************)
(* Specifications                                                          *)
(***************************************************************************)
MaxExpirations == 3
MaxCount == 1
MaxContracts == 2

ExpirationDate(i) == 20240900 + 5 * i

Equity == [symbol |-> ticker, streamer_symbol |-> ticker]

\* the i-th contract of an expiration: calls and puts alternate
Contract(date, i) == Option(date, IF i % 2 = 1 THEN "C" ELSE "P", 100 + i)

\* the orders in which the chain lists n expirations: ascending, descending
Orders(n) == {[i \in 1..n |-> i], [i \in 1..n |-> n + 1 - i]}

\* a session whose chain has n expirations of k contracts each, the chain's
\* keys in the order p; the provider sends events of subscribed symbols only
Session(n, k, p, versions) ==
    [equity |-> Equity,
     chain_keys |-> [i \in 1..n |-> ExpirationDate(p[i])],
     chain |-> [d \in {ExpirationDate(i) : i \in 1..n} |->
                   [i \in 1..k |-> Contract(d, i)]],
     versions |-> versions,
     stray |-> {}]

Idle ==
    /\ heap = <<>>
    /\ self = 0
    /\ underlying = 0
    /\ options_dict = <<>>
    /\ todo = <<>>
    /\ live = TRUE
    /\ lastEv = None
    /\ json_file = <<>>
    /\ csv_file = <<>>
    /\ result = None
    /\ eventSymbol = <<>>
    /\ parsed = None

\* cache_gex_csv(session, ticker, csv_file, json_file, expiration_count)
Init ==
    /\ \E n \in 0..MaxExpirations : \E p \in Orders(n) :
           session = Session(n, 1, p, {1})
    /\ expiration_count \in 0..MaxCount
    /\ pc = "u_connect"
    /\ expiration = 0
    /\ Idle

Next ==
    \/ U_Connect
    \/ U_Check
    \/ U_Wake
    \/ JsonWrite
    \/ Loop
    \/ O_Connect
    \/ O_Check
    \/ O_Wake
    \/ Store
    \/ Gex
    \/ Csv
    \/ Deliver

Spec == Init /\ [][Next]_vars

\* OptionsLivePrices.create(session, ticker, expiration)
InitOptions ==
    /\ \E k \in 0..MaxContracts : session = Session(1, k, <<1>>, {1})
    /\ expiration_count = 0
    /\ pc = "o_connect"
    /\ expiration = ExpirationDate(1)
    /\ Idle

NextOptions ==
    \/ O_Connect
    \/ O_Check
    \/ O_Wake
    \/ Deliver

SpecOptions == InitOptions /\ [][NextOptions]_vars

\* the event loop resumes the main coroutine: a sleep that has elapsed ends
\* and the loop condition is evaluated again
InitPoll ==
    /\ \E k \in {0, 1, 2} : session = Session(1, k, <<1>>, {1})
    /\ expiration_count = 0
    /\ pc = "o_connect"
    /\ expiration = ExpirationDate(1)
    /\ Idle

SpecOptionsFair ==
    InitPoll /\ [][NextOptions]_vars /\ WF_vars(O_Check) /\ WF_vars(O_Wake)

\* either create, with two versions of every event and the history variable
InitCreate ==
    /\ session = Session(1, 1, <<1>>, {1, 2})
    /\ expiration_count = 0
    /\ \/ pc = "u_connect" /\ expiration = 0
       \/ pc = "o_connect" /\ expiration = ExpirationDate(1)
    /\ Idle

NextCreate ==
    \/ U_Connect
    \/ U_Check
    \/ U_Wake
    \/ O_Connect
    \/ O_Check
    \/ O_Wake
    \/ DeliverObserved
    \/ ProviderStops

SpecCreate == InitCreate /\ [][NextCreate]_vars

\* a symbol the provider may use in its events instead of the ticker
Other == <<"S", "P", "X">>

\* UnderlyingLivePrices.create and the lookup that follows it, with a
\* provider that keeps to the subscribed symbol or also sends another one
InitStray ==
    /\ \E stray \in {{}, {Other}} :
           session = [Session(0, 0, <<>>, {1}) EXCEPT !.stray = stray]
    /\ expiration_count = 0
    /\ pc = "u_connect"
    /\ expiration = 0
    /\ Idle

NextStray ==
    \/ U_Connect
    \/ U_Check
    \/ U_Wake
    \/ Deliver
    \/ JsonWrite

SpecStray == InitStray /\ [][NextStray]_vars

\* get_price_and_gex(ticker, underlying, options_dict) on bundles drawn from
\* bounded sets
MaxLegs == 4

Coverage == {"none", "half", "all"}

FirstHalf(contracts) ==
    {contracts[i].streamer_symbol : i \in 1..((Len(contracts) + 1) \div 2)}

\* the symbols that have an event of kind K under a coverage
Covered(K, options, cov) ==
    CASE cov = "none" -> {}
      [] cov = "half" -> FirstHalf(Filter(options, "C"))
                             \cup FirstHalf(Filter(options, "P"))
      [] cov = "all"  -> SymbolsOf(options)
                             \cup (IF K \in {"quotes", "candles"}
                                   THEN {ticker} ELSE {})

Snapshot(K, symbols, v) == [s \in symbols |-> EventOf(K, s, v)]

\* an options bundle as the listeners can have left it
OptionsBundle(options, cov, v) ==
    [quotes |-> Snapshot("quotes", Covered("quotes", options, cov.quotes), v),
     greeks |-> Snapshot("greeks", Covered("greeks", options, cov.greeks), v),
     candles |-> Snapshot("candles", Covered("candles", options, cov.candles), v),
     summaries |-> Snapshot("summaries",
                            Covered("summaries", options, cov.summaries), v),
     trades |-> Snapshot("trades", Covered("trades", options, cov.trades), v),
     streamer |-> [quotes |-> {ticker} \cup SymbolsOf(options),
                   candles |-> {ticker} \cup SymbolsOf(options),
                   greeks |-> SymbolsOf(options),
                   summaries |-> SymbolsOf(options),
                   trades |-> SymbolsOf(options)],
     puts |-> Filter(options, "P"),
     calls |-> Filter(options, "C")]

\* an underlying bundle; u = 0: no candle of the ticker, u = 1, 2: the
\* candle of that version, u = 3: a candle whose close is not a number
UnderlyingBundle(u) ==
    LET have == IF u = 0 THEN {} ELSE {ticker}
        v    == IF u = 2 THEN 2 ELSE 1
    IN  [quotes |-> Snapshot("quotes", {ticker}, v),
         candles |-> [s \in have |->
                        IF u = 3
                        THEN [EventOf("candles", s, v) EXCEPT !.close = nan]
                        ELSE EventOf("candles", s, v)],
         summaries |-> Snapshot("summaries", {ticker}, v),
         trades |-> Snapshot("trades", {ticker}, v),
         streamer |-> [quotes |-> {ticker}, candles |-> {ticker},
                       summaries |-> {ticker}, trades |-> {ticker}],
         underlying |-> Equity]

\* c calls and p puts of one expiration, puts first
Legs(date, c, p) ==
    [i \in 1..(p + c) |-> IF i <= p THEN Option(date, "P", 100 + i)
                          ELSE Option(date, "C", 100 + i - p)]

InitGex ==
    /\ session = Session(0, 0, <<>>, {1, 2})
    /\ expiration_count = 0
    /\ pc = "gex"
    /\ expiration = 0
    /\ todo = <<>>
    /\ live = TRUE
    /\ lastEv = None
    /\ json_file = <<>>
    /\ csv_file = <<>>
    /\ result = None
    /\ eventSymbol = <<>>
    /\ parsed = None
    /\ self = 0
    /\ underlying = 1
    /\ \E u \in 0..3, v \in 1..2, c \in 0..MaxLegs, p \in 0..MaxLegs,
          more \in BOOLEAN,
          cov \in [{"greeks", "candles", "summaries", "trades"} -> Coverage] :
          LET first == OptionsBundle(Legs(ExpirationDate(1), c, p),
                           [K \in Kinds |-> IF K = "quotes" THEN "all"
                                            ELSE cov[K]], v)
              second == OptionsBundle(Legs(ExpirationDate(2), 1, 1),
                           [K \in Kinds |-> "all"], 3 - v)
          IN  /\ u = 3 => (v = 1 /\ ~more)
              /\ IF more
                THEN /\ heap = <<UnderlyingBundle(u), first, second>>
                     /\ options_dict =
                            <<[key |-> ExpirationDate(1), value |-> 2],
                              [key |-> ExpirationDate(2), value |-> 3]>>
                ELSE /\ heap = <<UnderlyingBundle(u), first>>
                     /\ options_dict =
                            <<[key |-> ExpirationDate(1), value |-> 2]>>

NextGex ==
    \/ Gex
    \/ Csv

SpecGex == InitGex /\ [][NextGex]_vars

\* parse_symbol(eventSymbol) on strings put together from well-formed and
\* malformed parts
ParseInputs ==
    {pre \o tk \o dt \o cp \o st \o suf :
        pre \in {<<>>, <<".">>},
        tk  \in {<<>>, <<"S", "P", "Y">>, <<"s", "p", "y">>, <<"C">>,
                 <<"S", "p">>},
        dt  \in {<<"2", "4", "0", "9", "2">>,
                 <<"2", "4", "0", "9", "2", "7">>,
                 <<"2", "4", "0", "9", "2", "7", "0">>,
                 <<"2", "4", "0", "2", "3", "0">>,
                 <<"2", "4", "1", "3", "0", "1">>,
                 <<"6", "9", "0", "1", "0", "1">>},
        cp  \in {<<>>, <<"C">>, <<"P">>, <<"X">>, <<"c">>},
        st  \in {<<>>, <<"5">>, <<"1", "0", "5">>, <<"0", "1", "0", "5">>},
        suf \in {<<>>, <<"x">>, <<".", "5">>, <<" ">>}}

InitParse ==
    /\ session = Session(0, 0, <<>>, {1})
    /\ expiration_count = 0
    /\ pc = "parse"
    /\ expiration = 0
    /\ eventSymbol \in ParseInputs
    /\ heap = <<>>
    /\ self = 0
    /\ underlying = 0
    /\ options_dict = <<>>
    /\ todo = <<>>
    /\ live = TRUE
    /\ lastEv = None
    /\ json_file = <<>>
    /\ csv_file = <<>>
    /\ result = None
    /\ parsed = None

NextParse == Parse

SpecParse == InitParse /\ [][NextParse]_vars

(***************************************************************************)
(* Properties                                                              *)
(***************************************************************************)
Entries(b, K) == Cardinality(DOMAIN b[K])

\* ceil(0.5 * n)
CeilHalf(n) == (n + 1) \div 2

Min(a, b) == IF a <= b THEN a ELSE b

UnderlyingKinds == {"quotes", "candles", "summaries", "trades"}

\* number of option contracts of the requested expiration
Contracts == Len(session.chain[expiration])

EnoughEntries ==
    \A K \in Kinds : Entries(heap[self], K) >= CeilHalf(Contracts)

C1_Returned == pc = "o_return" => EnoughEntries

C1_Check ==
    (pc = "o_check" /\ pc' # "o_check") => (pc' = "o_return" <=> EnoughEntries)

\* C1: at a readiness check OptionsLivePrices.create returns if and only if
\* each of the five maps (greeks, quotes, candles, summaries, trades) holds
\* at least ceil(0.5 * n) entries, n the number of option contracts of the
\* expiration; it is never in the returned state with a map below that.
C1_ReturnsIffEnoughEntries == [] C1_Returned /\ [][C1_Check]_vars

\* create returned at exactly 50 %: two contracts, one entry in some map
C1_Witness ==
    /\ pc = "o_return"
    /\ Contracts = 2
    /\ \E K \in Kinds : Entries(heap[self], K) = 1

\* C2: when OptionsLivePrices.create returns, for every one of the five event
\* kinds at least 50 % of the option contract symbols have an entry in that
\* kind's map, entries keyed by the underlying ticker not counted.
C2_HalfOfContractsHaveEntries ==
    pc = "o_return" =>
        \A K \in Kinds :
            2 * Cardinality(DOMAIN heap[self][K]
                              \cap SymbolsOf(session.chain[expiration]))
                >= Contracts

ExactlyOneEach ==
    \A K \in UnderlyingKinds : Entries(heap[self], K) = 1

C3_Returned == pc = "u_return" => ExactlyOneEach

C3_Check ==
    (pc = "u_check" /\ pc' # "u_check") => (pc' = "u_return" <=> ExactlyOneEach)

Polling == pc \in {"u_check", "u_sleep", "o_check", "o_sleep"}

\* the readiness condition of the bundle being created
Ready ==
    IF pc \in {"u_check", "u_sleep", "u_return"} THEN ExactlyOneEach
    ELSE EnoughEntries

\* the feed stopped before the threshold was met
Starved == Polling /\ ~live /\ ~Ready

\* C4: while the readiness condition is not satisfied create (either variant)
\* stays in the polling loop, and once the provider has stopped delivering
\* before the threshold was met it never returns and never reports an error:
\* from then on the caller is in the polling loop in every state.
C4_BlocksForever ==
    /\ [][(Polling /\ ~Ready) => Polling']_vars
    /\ [][Starved => Starved']_vars

\* the options create starved, asleep in the loop, some events received
C4_Witness ==
    /\ Starved
    /\ pc = "o_sleep"
    /\ \E K \in Kinds : Entries(heap[self], K) >= 1

\* every entry of every map is an event of its own symbol
C5_Keyed ==
    \A c \in 1..Len(heap) : \A K \in DOMAIN heap[c].streamer :
        \A s \in DOMAIN heap[c][K] : heap[c][K][s].eventSymbol = s

\* the entry of the symbol of the event delivered last is that event
C5_Latest ==
    lastEv # None =>
        /\ lastEv.e.eventSymbol \in DOMAIN heap[lastEv.c][lastEv.K]
        /\ heap[lastEv.c][lastEv.K][lastEv.e.eventSymbol] = lastEv.e

\* a step adds the key of the delivered event and no other, removes none,
\* and leaves every entry but the delivered one as it was
C5_Step ==
    \A c \in 1..Len(heap') : \A K \in DOMAIN heap'[c].streamer :
        LET old == IF c <= Len(heap) THEN heap[c][K] ELSE <<>>
            new == heap'[c][K]
            hit == lastEv' # lastEv /\ lastEv'.c = c /\ lastEv'.K = K
        IN  /\ DOMAIN new = (DOMAIN old) \cup
                   (IF hit THEN {lastEv'.e.eventSymbol} ELSE {})
            /\ \A s \in DOMAIN new :
                   new[s] = IF hit /\ s = lastEv'.e.eventSymbol
                            THEN lastEv'.e ELSE old[s]

\* C5: after any sequence of delivered events, the map of kind K contains s
\* if and only if an event of kind K with symbol s has been delivered, the
\* stored value is the most recently delivered such event, and an entry once
\* present is never removed (each key set only grows).
C5_LastWriteWins == [] (C5_Keyed /\ C5_Latest) /\ [][C5_Step]_vars

\* a second version of an event has been delivered into a map of two entries
C5_Witness ==
    /\ lastEv # None
    /\ lastEv.e = EventOf(lastEv.K, lastEv.e.eventSymbol, 2)
    /\ Entries(heap[lastEv.c], lastEv.K) = 2
    /\ \E s \in DOMAIN heap[lastEv.c][lastEv.K] :
           heap[lastEv.c][lastEv.K][s] = EventOf(lastEv.K, s, 1)

\* the expirations that have a bundle, in the order they were built
Built == [i \in 1..Len(options_dict) |-> options_dict[i].key]

Selected == Min(expiration_count + 1, Len(session.chain_keys))

\* C6: cache_gex_csv builds options bundles for the chain's expiration dates
\* in ascending date order and stops as soon as more than expiration_count
\* bundles exist: the bundles built are exactly the
\* min(expiration_count + 1, N) earliest of the N expirations.
C6_EarliestCountPlusOne ==
    /\ \A i \in 1..Len(Built) : Built[i] = ExpirationDate(i)
    /\ Len(heap) <= 1 + Selected
    /\ pc \in {"gex", "csv", "done"} =>
           /\ Len(Built) = Selected
           /\ Len(heap) = 1 + Selected

\* two of three expirations, listed in descending order, were built
C6_Witness ==
    /\ pc = "done"
    /\ expiration_count = 1
    /\ Len(session.chain_keys) = 3
    /\ session.chain_keys[1] = ExpirationDate(3)
    /\ Built = <<ExpirationDate(1), ExpirationDate(2)>>

\* get_price_and_gex has run
AfterGex == pc \in {"csv", "done", "error"}

Returned == pc \in {"csv", "done"}

Bundle(k) == heap[options_dict[k].value]

ListedIn(b) == SymbolsOf(b.calls) \cup SymbolsOf(b.puts)

ListedSymbols == UNION {ListedIn(Bundle(k)) : k \in 1..Len(options_dict)}

RECURSIVE ListedUpTo(_)
ListedUpTo(k) ==
    IF k = 0 THEN 0
    ELSE ListedUpTo(k - 1) + Len(Bundle(k).calls) + Len(Bundle(k).puts)

ListedCount == ListedUpTo(Len(options_dict))

SpotKnown == ticker \in DOMAIN heap[underlying].candles

GexKinds == {"greeks", "candles", "summaries", "trades"}

\* C7: get_price_and_gex returns exactly one row per contract listed in the
\* puts and calls of every supplied options bundle, whatever events were
\* received: a contract with no entry in any map has its row, a symbol that
\* only appears in received events has none (given the spot price and at
\* least one listed contract, the call returns).
C7_OneRowPerListedContract ==
    AfterGex =>
        /\ (SpotKnown /\ ListedCount > 0) => result.ok
        /\ result.ok =>
               /\ Len(result.df) = ListedCount
               /\ {result.df[i].symbol : i \in 1..Len(result.df)} = ListedSymbols
               /\ \A i, j \in 1..Len(result.df) :
                      result.df[i].symbol = result.df[j].symbol => i = j

\* 4 calls and 4 puts, events for 2 calls and 2 puts only: 8 rows
C7_Witness ==
    /\ Returned
    /\ Len(options_dict) = 1
    /\ Len(Bundle(1).calls) = 4
    /\ Len(Bundle(1).puts) = 4
    /\ \A K \in GexKinds : Entries(Bundle(1), K) = 4
    /\ ticker \in DOMAIN Bundle(1).quotes
    /\ Len(result.df) = 8
    /\ \E i \in 1..8 : result.df[i].gamma.nan /\ result.df[i].openInterest.nan

\* greeks has no entry for s; candles, trades and summaries have one
GreeksAlone(b, s) ==
    /\ s \notin DOMAIN b.greeks
    /\ s \in DOMAIN b.candles
    /\ s \in DOMAIN b.trades
    /\ s \in DOMAIN b.summaries

C8_Row(r, b, s) ==
    /\ r.gamma = nan
    /\ r.gex = nan
    /\ r.gexCandleDayVolume = nan
    /\ r.gexTradeDayVolume = nan
    /\ r.gexPrevDayVolume = nan
    /\ r.candleBidVolume = b.candles[s].bidVolume
    /\ r.candleAskVolume = b.candles[s].askVolume
    /\ r.candleDayVolume = b.candles[s].volume
    /\ r.tradeDayVolume = b.trades[s].dayVolume
    /\ r.prevDayVolume = b.summaries[s].prevDayVolume
    /\ r.openInterest = b.summaries[s].openInterest
    /\ ~r.candleBidVolume.nan /\ ~r.candleAskVolume.nan
    /\ ~r.candleDayVolume.nan /\ ~r.tradeDayVolume.nan
    /\ ~r.prevDayVolume.nan /\ ~r.openInterest.nan

\* C8: for a contract whose symbol is absent from the greeks map but present
\* in the candles, trades and summaries maps, the row has gamma and the four
\* exposure values not-available while the six volume and open-interest
\* fields carry the values of the stored events; the computation does not
\* fail (the spot price being there).
C8_MissingGreeksOnly ==
    AfterGex =>
        \A k \in 1..Len(options_dict) : \A s \in ListedIn(Bundle(k)) :
            GreeksAlone(Bundle(k), s) =>
                /\ SpotKnown => result.ok
                /\ result.ok =>
                       \E i \in 1..Len(result.df) :
                           /\ result.df[i].symbol = s
                           /\ C8_Row(result.df[i], Bundle(k), s)

C8_Witness ==
    /\ Returned
    /\ \E k \in 1..Len(options_dict) : \E s \in ListedIn(Bundle(k)) :
           /\ GreeksAlone(Bundle(k), s)
           /\ \E i \in 1..Len(result.df) :
                  /\ result.df[i].symbol = s
                  /\ result.df[i].gex = nan
                  /\ result.df[i].openInterest = Num(1000)

\* g * sign * 100 * S * S * 0.01 * v
ClaimedExposure(g, sign, S, v) ==
    Mul(Mul(Mul(Mul(Mul(Mul(g, Num(sign)), Num(100)), S), S), Norm(1, -2)), v)

Neg(a) == IF a.nan THEN nan ELSE Norm(0 - a.m, a.e)

RECURSIVE Pow10(_)
Pow10(k) == IF k = 0 THEN 1 ELSE 10 * Pow10(k - 1)

\* the integer a decimal number stands for (whole numbers only)
IntOf(a) == a.m * Pow10(a.e)

SignOf(r) == IF r.contract_type = "C" THEN 1 ELSE -1

Available(r) ==
    /\ ~r.gamma.nan /\ ~r.openInterest.nan /\ ~r.candleDayVolume.nan
    /\ ~r.tradeDayVolume.nan /\ ~r.prevDayVolume.nan

C9_Formula(r) ==
    LET S == result.spot_price IN
    /\ r.gex = ClaimedExposure(r.gamma, SignOf(r), S, r.openInterest)
    /\ r.gexCandleDayVolume =
           ClaimedExposure(r.gamma, SignOf(r), S, r.candleDayVolume)
    /\ r.gexTradeDayVolume =
           ClaimedExposure(r.gamma, SignOf(r), S, r.tradeDayVolume)
    /\ r.gexPrevDayVolume =
           ClaimedExposure(r.gamma, SignOf(r), S, r.prevDayVolume)

\* a put row is the negation of a call row of the same inputs
C9_Negated(call, put) ==
    (/\ call.contract_type = "C" /\ put.contract_type = "P"
     /\ call.gamma = put.gamma
     /\ call.openInterest = put.openInterest
     /\ call.candleDayVolume = put.candleDayVolume
     /\ call.tradeDayVolume = put.tradeDayVolume
     /\ call.prevDayVolume = put.prevDayVolume)
    => /\ put.gex = Neg(call.gex)
       /\ put.gexCandleDayVolume = Neg(call.gexCandleDayVolume)
       /\ put.gexTradeDayVolume = Neg(call.gexTradeDayVolume)
       /\ put.gexPrevDayVolume = Neg(call.gexPrevDayVolume)

\* S = 500, g = 0.05, oi = 1000
IsExample(r) ==
    /\ result.spot_price = Num(500)
    /\ r.gamma = Norm(5, -2)
    /\ r.openInterest = Num(1000)

C9_Rows(example) ==
    Returned =>
        \A i \in 1..Len(result.df) :
            LET r == result.df[i] IN
            /\ Available(r) => C9_Formula(r)
            /\ \A j \in 1..Len(result.df) :
                   (Available(r) /\ Available(result.df[j]))
                       => C9_Negated(r, result.df[j])
            /\ IsExample(r) => r.gex = Num(SignOf(r) * example)

\* C9 as stated: each exposure value equals g * sign * 100 * S * S * 0.01 * v,
\* a put yields the negation of the call, and S = 500, g = 0.05, oi = 1000
\* gives 125000 for the call and -125000 for the put.
C9_Original == C9_Rows(125000)

\* C9: each exposure value equals g * sign * 100 * S * S * 0.01 * v (sign +1
\* for a call, -1 for a put; v open interest, candle day volume, trade day
\* volume, previous-day volume), a put yields the negation of the call, and
\* S = 500, g = 0.05, oi = 1000 gives 12500000 for the call and -12500000 for
\* the put.
C9_ExposureFormula == C9_Rows(12500000)

C9_Witness ==
    /\ Returned
    /\ \E i, j \in 1..Len(result.df) :
           /\ IsExample(result.df[i]) /\ IsExample(result.df[j])
           /\ result.df[i].contract_type = "C"
           /\ result.df[j].contract_type = "P"
           /\ IntOf(result.df[i].gex) = 12500000
           /\ IntOf(result.df[j].gex) = -12500000

\* the whole string is: dot, uppercase letters up to a, six digits, C or P,
\* digits
WellFormedAt(s, a) ==
    /\ s[1] = "."
    /\ \A j \in 2..(a - 1) : IsUpper(s[j])
    /\ a + 7 <= Len(s)
    /\ \A j \in a..(a + 5) : IsDigit(s[j])
    /\ s[a + 6] \in {"C", "P"}
    /\ \A j \in (a + 7)..Len(s) : IsDigit(s[j])

WellFormed(s) == \E a \in 3..Len(s) : WellFormedAt(s, a)

\* C10: for every symbol string that does not match the pattern dot,
\* uppercase ticker letters, six digits, C or P, strike digits, parse_symbol
\* fails and changes no state.
C10_MalformedFails ==
    (pc = "parsed" /\ ~WellFormed(eventSymbol)) =>
        /\ ~parsed.ok
        /\ heap = <<>> /\ options_dict = <<>>
        /\ json_file = <<>> /\ csv_file = <<>>

\* the components of a well-formed symbol
Parts(s) ==
    LET a == CHOOSE a \in 3..Len(s) : WellFormedAt(s, a) IN
    [ticker |-> SubSeq(s, 2, a - 1),
     date   |-> SubSeq(s, a, a + 5),
     letter |-> s[a + 6],
     strike |-> SubSeq(s, a + 7, Len(s))]

\* the six digits YYMMDD name a day of the calendar (years 1969 to 2068)
CalendarDate(ds) ==
    LET yy == 10 * DigitVal(ds[1]) + DigitVal(ds[2])
        mm == 10 * DigitVal(ds[3]) + DigitVal(ds[4])
        dd == 10 * DigitVal(ds[5]) + DigitVal(ds[6])
    IN  /\ mm \in 1..12
        /\ dd >= 1
        /\ dd <= (IF mm = 2 THEN (IF yy % 4 = 0 THEN 29 ELSE 28)
                  ELSE IF mm \in {4, 6, 9, 11} THEN 30 ELSE 31)

\* the six digits YYMMDD of a returned date
SixDigits(date) ==
    LET yy == (date \div 10000) % 100
        mm == (date \div 100) % 100
        dd == date % 100
    IN  <<DigitChars[(yy \div 10) + 1], DigitChars[(yy % 10) + 1],
          DigitChars[(mm \div 10) + 1], DigitChars[(mm % 10) + 1],
          DigitChars[(dd \div 10) + 1], DigitChars[(dd % 10) + 1]>>

\* the returned tuple gives back the components of the input
RoundTrips(s, t) ==
    /\ t.ok
    /\ t.ticker = Parts(s).ticker
    /\ SixDigits(t.expiration) = Parts(s).date
    /\ t.contract_type = Parts(s).letter
    /\ ~t.strike.nan
    /\ IntOf(t.strike) = IntOfDigits(Parts(s).strike)

\* C11 as stated: for every symbol string matching the pattern dot, uppercase
\* ticker, six digits, C or P, strike digits, parse_symbol succeeds and the
\* ticker, the six digits, the letter and the numeric value of the strike
\* rebuilt from the returned tuple equal those of the input.
C11_Original ==
    (pc = "parsed" /\ WellFormed(eventSymbol)) =>
        RoundTrips(eventSymbol, parsed)

\* C11: for every symbol string matching the pattern whose six digits name a
\* calendar date YYMMDD, parse_symbol succeeds and the ticker, the six
\* digits, the letter and the numeric value of the strike rebuilt from the
\* returned tuple equal those of the input.
C11_RoundTrip ==
    (/\ pc = "parsed"
     /\ WellFormed(eventSymbol)
     /\ CalendarDate(Parts(eventSymbol).date)) =>
        RoundTrips(eventSymbol, parsed)

\* a 1969 put with a strike written with a leading zero
C11_Witness ==
    /\ pc = "parsed"
    /\ eventSymbol = <<".", "S", "P", "Y", "6", "9", "0", "1", "0", "1", "P",
                       "0", "1", "0", "5">>
    /\ parsed.ok
    /\ parsed.expiration = 19690101
    /\ parsed.strike = Num(105)

\* the bundle under construction holds the threshold in every map
AtThreshold == pc \in {"o_check", "o_sleep", "o_return"} /\ EnoughEntries

\* the connection of the bundle is there, with the subscriptions made on it
ConnectionOpen ==
    /\ self \in 1..Len(heap)
    /\ \A K \in Kinds :
           SymbolsOf(session.chain[expiration]) \subseteq heap[self].streamer[K]

\* C12: in OptionsLivePrices.create, once each of the five maps holds the
\* threshold of 0.5 * n entries the condition holds in every later state, and
\* with the polling task scheduled fairly create eventually returns the
\* bundle, its streaming connection still open.
C12_EventuallyReturns ==
    /\ [][AtThreshold => AtThreshold']_vars
    /\ AtThreshold ~> (pc = "o_return")
    /\ [] (pc = "o_return" => ConnectionOpen)

\* returned with more entries than the threshold asks for
C12_Witness ==
    /\ pc = "o_return"
    /\ AtThreshold
    /\ ConnectionOpen
    /\ Contracts = 2
    /\ \E K \in Kinds : Entries(heap[self], K) = 2

\* the underlying bundle holds one entry in each of its maps
UnderlyingReady(c) == \A K \in UnderlyingKinds : Entries(heap[c], K) = 1

\* the options bundle c holds, in each map, half of its contracts or more
BundleReady(c) ==
    \A K \in Kinds :
        2 * Entries(heap[c], K) >= Len(heap[c].puts) + Len(heap[c].calls)

\* an options bundle has been requested
OptionsRequested == Len(heap) >= 2

\* C13: cache_gex_csv is sequential: when an options bundle is requested the
\* underlying bundle is ready and the JSON record written; when the bundle of
\* a later expiration is requested every earlier one is ready and stored;
\* the rows are computed and the CSV written only with every selected bundle
\* ready; while a selected bundle is not ready there is no table and no CSV,
\* the JSON record being written already.
C13_Sequential ==
    /\ OptionsRequested => (UnderlyingReady(1) /\ json_file # <<>>)
    /\ \A c \in 2..(Len(heap) - 1) :
           /\ BundleReady(c)
           /\ Len(options_dict) >= c - 1
           /\ options_dict[c - 1].value = c
    /\ (pc \in {"gex", "csv", "done"} \/ result # None \/ csv_file # <<>>) =>
           /\ underlying = 1 /\ UnderlyingReady(1) /\ json_file # <<>>
           /\ Len(options_dict) = Selected
           /\ Len(heap) = 1 + Selected
           /\ \A c \in 2..Len(heap) : BundleReady(c)
    /\ (pc \in {"o_check", "o_sleep"} /\ ~BundleReady(self)) =>
           (csv_file = <<>> /\ result = None /\ json_file # <<>>)

\* the CSV of two bundles is written
C13_Witness ==
    /\ pc = "done"
    /\ csv_file # <<>>
    /\ json_file # <<>>
    /\ Len(heap) = 3
    /\ BundleReady(2) /\ BundleReady(3)

\* the second bundle is not ready: the JSON record is there, the CSV is not
C13_Blocked ==
    /\ pc = "o_sleep"
    /\ self = 3
    /\ ~BundleReady(3)
    /\ json_file # <<>>
    /\ csv_file = <<>>

\* the create calls made so far: the underlying one, those of the stored
\* bundles, and the one in progress
Creates ==
    (IF pc = "u_connect" THEN 0 ELSE 1) + Len(options_dict)
        + (IF pc \in {"o_check", "o_sleep", "o_return"} THEN 1 ELSE 0)

\* the listener of kind K of connection c takes an event of s and stores it
StillListening(c, K, s) ==
    LET e == EventOf(K, s, 1) IN
    ENABLED (Listen(c, K, e) /\ s \in DOMAIN heap'[c][K] /\ heap'[c][K][s] = e)

\* the bundles create has returned
ReturnedBundles ==
    (IF underlying = 0 THEN {} ELSE {underlying})
        \cup {options_dict[i].value : i \in 1..Len(options_dict)}

\* C14: listener tasks and connections are never stopped: whenever the main
\* coroutine is suspended, every listener of every connection, those of
\* returned bundles included, still stores an event of a subscribed symbol,
\* so an earlier bundle changes while later ones are built; the number of
\* connections is one per create call made (1 + k) and never decreases.
C14_NeverStopped ==
    /\ [] (Suspended =>
              \A c \in 1..Len(heap) : \A K \in DOMAIN heap[c].streamer :
                  \A s \in heap[c].streamer[K] : StillListening(c, K, s))
    /\ [] (Len(heap) = Creates)
    /\ [][/\ Len(heap') >= Len(heap)
           /\ Len(heap') <= Len(heap) + 1
           /\ \A c \in 1..Len(heap) : heap'[c].streamer = heap[c].streamer]_vars

\* the third connection is being filled while the stored bundle of the
\* first expiration still has an entry to receive
C14_Witness ==
    /\ pc = "o_sleep"
    /\ Len(heap) = 3
    /\ self = 3
    /\ 2 \in ReturnedBundles
    /\ \E K \in Kinds : \E s \in heap[2].streamer[K] :
           /\ s \notin DOMAIN heap[2][K]
           /\ StillListening(2, K, s)

\* the step changes bundle c in its map K at the entry of s and nowhere else
OnlyEntry(c, K, s) ==
    /\ \A c2 \in 1..Len(heap) : c2 # c => heap'[c2] = heap[c2]
    /\ DOMAIN heap'[c] = DOMAIN heap[c]
    /\ \A f \in DOMAIN heap[c] : f # K => heap'[c][f] = heap[c][f]
    /\ DOMAIN heap'[c][K] = (DOMAIN heap[c][K]) \cup {s}
    /\ \A s2 \in DOMAIN heap[c][K] : s2 # s => heap'[c][K][s2] = heap[c][K][s2]
    /\ \E v \in session.versions : heap'[c][K][s] = EventOf(K, s, v)

\* a step that changes a bundle is the delivery of one event: it changes one
\* entry and nothing else of the program's state
C15_Delivery ==
    (heap' # heap /\ Len(heap') = Len(heap)) =>
        /\ \E c \in 1..Len(heap) : \E K \in DOMAIN heap[c].streamer :
               \E s \in DOMAIN heap'[c][K] : OnlyEntry(c, K, s)
        /\ UNCHANGED <<session, expiration_count, pc, self, underlying,
                       options_dict, todo, expiration, json_file, csv_file,
                       result>>

\* any other step leaves every existing bundle as it is
C15_NoOtherWriter ==
    Len(heap') # Len(heap) =>
        /\ Len(heap') = Len(heap) + 1
        /\ \A c \in 1..Len(heap) : heap'[c] = heap[c]

\* C15: a delivered event of kind K with symbol s changes only the entry of
\* s in the map of kind K of the bundle whose connection delivered it: every
\* other entry of that map, every map of another kind, the puts and calls
\* lists, every other bundle and the caller's variables stay as they were;
\* a map of kind K is written with events of kind K only, by listener steps
\* only.
C15_OnlyOneEntry == [][C15_Delivery /\ C15_NoOtherWriter]_vars

\* three bundles with entries, two of them in one map of the second
C15_Witness ==
    /\ Len(heap) = 3
    /\ Entries(heap[2], "quotes") = 2
    /\ Entries(heap[2], "candles") = 1
    /\ Entries(heap[3], "greeks") = 1
    /\ Entries(heap[1], "trades") = 1

\* the row of s carries the stored value of a field, or not-a-number (never
\* zero) when the map has no entry for s
C16_Field(value, d, s, field) ==
    IF s \in DOMAIN d THEN value = d[s][field]
    ELSE value = nan /\ value # Num(0)

\* an exposure value is missing exactly when one of its inputs is
C16_Cell(r, gex, volume, withSpot) ==
    gex.nan <=>
        (r.gamma.nan \/ volume.nan \/ (withSpot /\ result.spot_price.nan))

C16_Rows(withSpot) ==
    Returned =>
        \A k \in 1..Len(options_dict) : \A i \in 1..Len(result.df) :
            LET r == result.df[i]
                b == Bundle(k)
                s == r.symbol
            IN  s \in ListedIn(b) =>
                /\ C16_Field(r.gamma, b.greeks, s, "gamma")
                /\ C16_Field(r.openInterest, b.summaries, s, "openInterest")
                /\ C16_Field(r.prevDayVolume, b.summaries, s, "prevDayVolume")
                /\ C16_Field(r.candleDayVolume, b.candles, s, "volume")
                /\ C16_Field(r.tradeDayVolume, b.trades, s, "dayVolume")
                /\ C16_Cell(r, r.gex, r.openInterest, withSpot)
                /\ C16_Cell(r, r.gexCandleDayVolume, r.candleDayVolume, withSpot)
                /\ C16_Cell(r, r.gexTradeDayVolume, r.tradeDayVolume, withSpot)
                /\ C16_Cell(r, r.gexPrevDayVolume, r.prevDayVolume, withSpot)

\* C16 as stated: each of the four exposure values is not-available exactly
\* when gamma or its own volume field is not-available; a missing value is
\* never replaced by zero.
C16_Original == C16_Rows(FALSE)

\* C16: each of the four exposure values is not-available exactly when
\* gamma, its own volume field (openInterest, candleDayVolume,
\* tradeDayVolume, prevDayVolume) or the spot price is not-available; a
\* missing value is never replaced by zero, and a symbol absent from the
\* trades map leaves the other three exposure values available when their
\* own inputs and the spot price are.
C16_MissingCells == C16_Rows(TRUE)

\* a row without a trade: one exposure missing, three available; and a row
\* whose trade volume is zero, with an exposure of zero
C16_Witness ==
    /\ Returned
    /\ \E i, j \in 1..Len(result.df) :
           /\ result.df[i].tradeDayVolume = nan
           /\ result.df[i].gexTradeDayVolume = nan
           /\ ~result.df[i].gex.nan
           /\ ~result.df[i].gexCandleDayVolume.nan
           /\ ~result.df[i].gexPrevDayVolume.nan
           /\ result.df[j].tradeDayVolume = Num(0)
           /\ result.df[j].gexTradeDayVolume = Num(0)

\* UnderlyingLivePrices.create is in its polling loop
UnderlyingPolling == pc \in {"u_check", "u_sleep"}

\* every delivered event carries the single subscribed symbol
OnlySubscribed == session.stray = {}

\* a map of the bundle under construction holds two entries or more
Oversized == \E K \in UnderlyingKinds : Entries(heap[self], K) >= 2

\* with events of the subscribed symbol only: no map exceeds one entry,
\* readiness stays, and the check that follows it returns
C17_Kept ==
    (OnlySubscribed /\ UnderlyingPolling) =>
        /\ \A K \in UnderlyingKinds : Entries(heap[self], K) <= 1
        /\ ExactlyOneEach => (ExactlyOneEach' /\ pc' # "u_sleep")

\* a map of two entries stays one, and create stays in the loop
C17_Lost ==
    (UnderlyingPolling /\ Oversized) =>
        (UnderlyingPolling' /\ Oversized' /\ ~ExactlyOneEach')

\* C17: in UnderlyingLivePrices.create, provided every delivered event
\* carries the single subscribed symbol, each of the four maps holds at most
\* one entry in every state, so readiness once reached stays and the next
\* poll returns; without the proviso a map that has received two symbols
\* holds two entries for good, readiness never holds again and create never
\* leaves the polling loop.
C17_OneEntryOrBlocked ==
    /\ [][C17_Kept]_vars
    /\ [][C17_Lost]_vars
    /\ [] (pc \in {"u_return", "loop", "error"} => ~Oversized)

\* the candles map has received two symbols, the other maps their one
C17_Witness ==
    /\ pc = "u_sleep"
    /\ ~OnlySubscribed
    /\ Entries(heap[self], "candles") = 2
    /\ \A K \in UnderlyingKinds \ {"candles"} : Entries(heap[self], K) = 1

\* C18: whenever UnderlyingLivePrices.create has returned, the candles map
\* has an entry keyed by the requested ticker, for every sequence of
\* delivered events, so the lookup candles[ticker] of cache_gex_csv does not
\* fail on a missing key.
C18_TickerCandle ==
    /\ pc = "u_return" => ticker \in DOMAIN heap[self].candles
    /\ pc # "error"

\* the row r of symbol s agrees with bundle b and the spot price as they are
C19_RowOf(r, b, s, spot) ==
    /\ C16_Field(r.gamma, b.greeks, s, "gamma")
    /\ C16_Field(r.candleBidVolume, b.candles, s, "bidVolume")
    /\ C16_Field(r.candleAskVolume, b.candles, s, "askVolume")
    /\ C16_Field(r.candleDayVolume, b.candles, s, "volume")
    /\ C16_Field(r.tradeDayVolume, b.trades, s, "dayVolume")
    /\ C16_Field(r.prevDayVolume, b.summaries, s, "prevDayVolume")
    /\ C16_Field(r.openInterest, b.summaries, s, "openInterest")
    /\ r.gex = ClaimedExposure(r.gamma, SignOf(r), spot, r.openInterest)
    /\ r.gexCandleDayVolume =
           ClaimedExposure(r.gamma, SignOf(r), spot, r.candleDayVolume)
    /\ r.gexTradeDayVolume =
           ClaimedExposure(r.gamma, SignOf(r), spot, r.tradeDayVolume)
    /\ r.gexPrevDayVolume =
           ClaimedExposure(r.gamma, SignOf(r), spot, r.prevDayVolume)

\* the table is the table of the maps as they are now
C19_OneState ==
    Returned =>
        /\ result.spot_price = heap[underlying].candles[ticker].close
        /\ \A k \in 1..Len(options_dict) : \A i \in 1..Len(result.df) :
               result.df[i].symbol \in ListedIn(Bundle(k)) =>
                   C19_RowOf(result.df[i], Bundle(k), result.df[i].symbol,
                             result.spot_price)

\* from the call to the write no bundle changes: the only steps are the
\* computation and the write
C19_Step == (pc = "gex" \/ pc = "csv") => (heap' = heap /\ pc' # pc)

\* C19: get_price_and_gex has no suspension point: from its call to the
\* write of the CSV no listener step takes place, the only step in the
\* calling state is the whole computation, and all rows of the table agree
\* with one state of every map of every bundle and with one spot price,
\* though the listeners of all bundles are still running.
C19_NoInterleaving ==
    /\ [][C19_Step]_vars
    /\ [] C19_OneState

\* a table of two bundles, one row lacking a candle a listener may still bring
C19_Witness ==
    /\ pc = "csv"
    /\ Len(heap) = 3
    /\ Len(result.df) = 2
    /\ \E i \in 1..2 :
           /\ result.df[i].candleDayVolume = nan
           /\ result.df[i].symbol \in heap[2].streamer.candles
           /\ result.df[i].symbol \notin DOMAIN heap[2].candles
           /\ live

====
